---- MODULE Spec2Model ----
(***************************************************************************)
(* ask_context_chat of ex_app/lib/tools.py: one task is scheduled on the   *)
(* Nextcloud TaskProcessing service, its status is polled every 5 seconds  *)
(* for at most 60 * 6 rounds, and the answer is taken from the last task   *)
(* that was fetched.                                                       *)
(***************************************************************************)
EXTENDS Integers, Sequences, FiniteSets, TLC

\* ---------------------------------------------------------------- bounds
\* task ids the remote service may report: 1..MaxId
MaxId == 2
\* hist remembers the statuses of the polls of an invocation that makes at
\* most HistLen of them
HistLen == 3

\* ------------------------------------------------------- program constants
\* while ... and i < 60 * 6
MaxAttempts == 60 * 6
\* time.sleep(5)
SleepInterval == 5

STATUS_SUCCESSFUL == "STATUS_SUCCESSFUL"
STATUS_FAILED == "STATUS_FAILED"

\* the three messages ask_context_chat raises itself
MalformedResponse == "Failed to parse Nextcloud TaskProcessing task result"
TaskFailed == "Nextcloud TaskProcessing Task failed"
MalformedOutput == "\"output\" key not found in Nextcloud TaskProcessing task result"
\* whatever nc.ocs raises when the request itself fails; it is not a
\* ValidationError, so ask_context_chat lets it through
TransportError == "NextcloudException"

\* ------------------------------------------------------------ the remote
Ids == 1..MaxId
Statuses == {STATUS_SUCCESSFUL, STATUS_FAILED, "PENDING", "STATUS_SUCCEEDED_TYPO"}

Answer42 == [answer |-> "42"]
Answer7 == [answer |-> "7"]

\* JSON objects a task may carry as output
Dicts ==
    { <<>>,
      [output |-> Answer42],
      [output |-> Answer7, sources |-> Answer42] }

\* Task.output after validation: None or a dict
None == [t |-> "None"]
DictOf(d) == [t |-> "dict", d |-> d]

\* responses that match {task: {id, status, output?}}: an integer id, and an
\* output that is a JSON object or is absent
WellFormed ==
    { [task |-> [id |-> [t |-> "int", v |-> n], status |-> s, output |-> DictOf(d)]] :
          n \in Ids, s \in Statuses, d \in Dicts }
    \cup
    { [task |-> [id |-> [t |-> "int", v |-> n], status |-> s]] :
          n \in Ids, s \in Statuses }

\* further responses pydantic accepts: "output": null, and (lax mode) an id
\* that is a string of digits
Lax ==
    { [task |-> [id |-> [t |-> "int", v |-> 1], status |-> STATUS_SUCCESSFUL,
                 output |-> [t |-> "null"]]],
      [task |-> [id |-> [t |-> "digits", v |-> 1], status |-> "PENDING"]],
      [task |-> [id |-> [t |-> "digits", v |-> MaxId], status |-> STATUS_SUCCESSFUL,
                 output |-> DictOf([output |-> Answer42])]] }

\* responses that do not match the schema
Mismatched ==
    { [message |-> "not found"],
      [task |-> [id |-> [t |-> "int", v |-> 1]]],
      [task |-> [status |-> STATUS_SUCCESSFUL, output |-> DictOf([output |-> Answer42])]],
      [task |-> [id |-> [t |-> "text", v |-> 0], status |-> STATUS_SUCCESSFUL]],
      [task |-> [id |-> [t |-> "int", v |-> 1], status |-> STATUS_SUCCESSFUL,
                 output |-> [t |-> "list"]]] }

Responses == WellFormed \cup Lax \cup Mismatched

\* ------------------------------------------------------------ validation
\* class Task(BaseModel): id: int; status: str; output: dict[str, Any] | None = None
\* class Response(BaseModel): task: Task
\* Response.model_validate(response): [ok |-> TRUE, task |-> ...] or
\* [ok |-> FALSE] for a ValidationError
model_validate(r) ==
    IF "task" \notin DOMAIN r THEN [ok |-> FALSE]
    ELSE LET raw == r.task IN
         IF ~ ({"id", "status"} \subseteq DOMAIN raw) THEN [ok |-> FALSE]
         ELSE IF raw.id.t \notin {"int", "digits"} THEN [ok |-> FALSE]
         ELSE IF "output" \in DOMAIN raw /\ raw.output.t \notin {"null", "dict"}
              THEN [ok |-> FALSE]
         ELSE [ok |-> TRUE,
               task |-> [id |-> raw.id.v,
                         status |-> raw.status,
                         output |-> IF "output" \in DOMAIN raw /\ raw.output.t = "dict"
                                    THEN DictOf(raw.output.d)
                                    ELSE None]]

\* ------------------------------------------------------------- the state
VARIABLES
    pc,          \* "start", "loop" (at the while test), "poll" (slept, about to
                 \* GET), "returned", "raised"
    task,        \* the local variable task
    i,           \* the local variable i
    result,      \* the value returned
    err,         \* the message of the exception raised
    clock,       \* time spent in time.sleep
    sinceResp,   \* [sleeps, slept] since the last remote response
    posts,       \* POST /taskprocessing/schedule calls issued
    polls,       \* GET /taskprocessing/task/{id} calls issued
    sleeps,      \* time.sleep calls made
    submitId,    \* the id the submission response reported
    firstTerm,   \* index of the first response with a terminal status:
                 \* 0 the submission, k the k-th poll, -1 none yet
    hist,        \* the statuses of the poll responses so far, while there are at
                 \* most HistLen of them; <<>> again once there are more
    failure      \* the remote call that failed, and what had happened by then

vars == <<pc, task, i, result, err, clock, sinceResp, posts, polls, sleeps,
          submitId, firstTerm, hist, failure>>

NoTask == [id |-> 0, status |-> "", output |-> None]
NoValue == [none |-> TRUE]
NoError == ""
NoFailure == [kind |-> "none", calls |-> 0, sleeps |-> 0]

Terminal(s) == s = STATUS_SUCCESSFUL \/ s = STATUS_FAILED

Init ==
    /\ pc = "start"
    /\ task = NoTask
    /\ i = 0
    /\ result = NoValue
    /\ err = NoError
    /\ clock = 0
    /\ sinceResp = [sleeps |-> 0, slept |-> 0]
    /\ posts = 0
    /\ polls = 0
    /\ sleeps = 0
    /\ submitId = 0
    /\ firstTerm = -1
    /\ hist = <<>>
    /\ failure = NoFailure

\* ------------------------------------------------------------ submission
\* response = nc.ocs("POST", ".../taskprocessing/schedule", ...) raises
SubmitTransportError ==
    /\ pc = "start"
    /\ posts' = posts + 1
    /\ pc' = "raised"
    /\ err' = TransportError
    /\ failure' = [kind |-> "transport", calls |-> posts + polls + 1, sleeps |-> sleeps]
    /\ UNCHANGED <<task, i, result, clock, sinceResp, polls, sleeps, submitId,
                   firstTerm, hist>>

\* the POST answers, Response.model_validate raises ValidationError
SubmitInvalid ==
    /\ pc = "start"
    /\ \E r \in Responses : ~ model_validate(r).ok
    /\ posts' = posts + 1
    /\ pc' = "raised"
    /\ err' = MalformedResponse
    /\ failure' = [kind |-> "schema", calls |-> posts + polls + 1, sleeps |-> sleeps]
    /\ UNCHANGED <<task, i, result, clock, sinceResp, polls, sleeps, submitId,
                   firstTerm, hist>>

\* the POST answers with a valid response: task = ....task; i = 0
Submit ==
    /\ pc = "start"
    /\ \E r \in Responses :
          LET v == model_validate(r) IN
          /\ v.ok
          /\ task' = v.task
          /\ submitId' = v.task.id
          /\ firstTerm' = IF Terminal(v.task.status) THEN 0 ELSE -1
    /\ posts' = posts + 1
    /\ i' = 0
    /\ sinceResp' = [sleeps |-> 0, slept |-> 0]
    /\ pc' = "loop"
    /\ UNCHANGED <<result, err, clock, polls, sleeps, hist, failure>>

\* ------------------------------------------------------- the polling loop
\* the while test with the cap off by one: i <= 60 * 6
LoopCondOffByOne(t, n) ==
    /\ t.status # STATUS_SUCCESSFUL
    /\ t.status # STATUS_FAILED
    /\ n <= MaxAttempts

\* the while test that forgets the failure status
LoopCondNoFailed(t, n) ==
    /\ t.status # STATUS_SUCCESSFUL
    /\ n < MaxAttempts

\* the while test with the cap written as 60 instead of 60 * 6
LoopCondShortCap(t, n) ==
    /\ t.status # STATUS_SUCCESSFUL
    /\ t.status # STATUS_FAILED
    /\ n < 60

\* while task.status != "STATUS_SUCCESSFUL" and task.status != "STATUS_FAILED" and i < 60 * 6
LoopCond(t, n) ==
    /\ t.status # STATUS_SUCCESSFUL
    /\ t.status # STATUS_FAILED
    /\ n < MaxAttempts

\* the loop body without its time.sleep(5): i += 1 only
SleepOmitted ==
    /\ pc = "loop"
    /\ LoopCond(task, i)
    /\ i' = i + 1
    /\ pc' = "poll"
    /\ UNCHANGED <<task, result, err, clock, sinceResp, posts, polls, sleeps,
                   submitId, firstTerm, hist, failure>>

\* time.sleep(5); i += 1
Sleep ==
    /\ pc = "loop"
    /\ LoopCond(task, i)
    /\ clock' = clock + SleepInterval
    /\ sleeps' = sleeps + 1
    /\ sinceResp' = [sleeps |-> sinceResp.sleeps + 1,
                     slept |-> sinceResp.slept + SleepInterval]
    /\ i' = i + 1
    /\ pc' = "poll"
    /\ UNCHANGED <<task, result, err, posts, polls, submitId, firstTerm,
                   hist, failure>>

\* response = nc.ocs("GET", f".../taskprocessing/task/{task.id}") raises;
\* the request is addressed to the id held in task
PollTransportError ==
    /\ pc = "poll"
    /\ polls' = polls + 1
    /\ pc' = "raised"
    /\ err' = TransportError
    /\ failure' = [kind |-> "transport", calls |-> posts + polls + 1, sleeps |-> sleeps]
    /\ UNCHANGED <<task, i, result, clock, sinceResp, posts, sleeps, submitId,
                   firstTerm, hist>>

\* a ValidationError at a poll that is swallowed: the loop goes on with the
\* task it had
PollInvalidRetried ==
    /\ pc = "poll"
    /\ \E r \in Responses : ~ model_validate(r).ok
    /\ polls' = polls + 1
    /\ pc' = "loop"
    /\ failure' = [kind |-> "schema", calls |-> posts + polls + 1, sleeps |-> sleeps]
    /\ UNCHANGED <<task, i, result, err, clock, sinceResp, posts, sleeps, submitId,
                   firstTerm, hist>>

\* the GET answers, Response.model_validate raises ValidationError
PollInvalid ==
    /\ pc = "poll"
    /\ \E r \in Responses : ~ model_validate(r).ok
    /\ polls' = polls + 1
    /\ pc' = "raised"
    /\ err' = MalformedResponse
    /\ failure' = [kind |-> "schema", calls |-> posts + polls + 1, sleeps |-> sleeps]
    /\ UNCHANGED <<task, i, result, clock, sinceResp, posts, sleeps, submitId,
                   firstTerm, hist>>

\* the GET, addressed to the id held in task, answers with a valid response:
\* task = ....task
Poll ==
    /\ pc = "poll"
    /\ \E r \in Responses :
          LET v == model_validate(r) IN
          /\ v.ok
          /\ task' = v.task
          /\ firstTerm' = IF firstTerm = -1 /\ Terminal(v.task.status)
                          THEN polls + 1 ELSE firstTerm
          /\ hist' = IF polls < HistLen /\ Len(hist) = polls
                     THEN Append(hist, v.task.status) ELSE <<>>
    /\ polls' = polls + 1
    /\ sinceResp' = [sleeps |-> 0, slept |-> 0]
    /\ pc' = "loop"
    /\ UNCHANGED <<i, result, err, clock, posts, sleeps, submitId, failure>>

\* --------------------------------------------------------- after the loop
\* return task.output instead of task.output['output']
ExtractWholeOutput(t) ==
    IF t.status # STATUS_SUCCESSFUL
    THEN [raise |-> TaskFailed]
    ELSE IF t.output.t # "dict" \/ "output" \notin DOMAIN t.output.d
    THEN [raise |-> MalformedOutput]
    ELSE [return |-> t.output.d]

\* the two checks in the other order: the output is looked at before the status
ExtractOutputFirst(t) ==
    IF t.output.t # "dict" \/ "output" \notin DOMAIN t.output.d
    THEN [raise |-> MalformedOutput]
    ELSE IF t.status # STATUS_SUCCESSFUL
    THEN [raise |-> TaskFailed]
    ELSE [return |-> t.output.d["output"]]

\* the output check without isinstance: "output" not in None is a TypeError
ExtractNoIsinstance(t) ==
    IF t.status # STATUS_SUCCESSFUL
    THEN [raise |-> TaskFailed]
    ELSE IF t.output.t # "dict"
    THEN [raise |-> "TypeError"]
    ELSE IF "output" \notin DOMAIN t.output.d
    THEN [raise |-> MalformedOutput]
    ELSE [return |-> t.output.d["output"]]

\* a timeout check on the counter put before the status check
ExtractCapFirst(t) ==
    IF i >= MaxAttempts \/ t.status # STATUS_SUCCESSFUL
    THEN [raise |-> TaskFailed]
    ELSE IF t.output.t # "dict" \/ "output" \notin DOMAIN t.output.d
    THEN [raise |-> MalformedOutput]
    ELSE [return |-> t.output.d["output"]]

\* if task.status != "STATUS_SUCCESSFUL": raise Exception("... Task failed")
\* if not isinstance(task.output, dict) or "output" not in task.output: raise ...
\* return task.output['output']
ExtractResult(t) ==
    IF t.status # STATUS_SUCCESSFUL
    THEN [raise |-> TaskFailed]
    ELSE IF t.output.t # "dict" \/ "output" \notin DOMAIN t.output.d
    THEN [raise |-> MalformedOutput]
    ELSE [return |-> t.output.d["output"]]

\* the while test fails; the checks after the loop return or raise
Finish ==
    /\ pc = "loop"
    /\ ~ LoopCond(task, i)
    /\ LET out == ExtractResult(task) IN
          IF "return" \in DOMAIN out
          THEN pc' = "returned" /\ result' = out.return /\ err' = err
          ELSE pc' = "raised" /\ err' = out.raise /\ result' = result
    /\ UNCHANGED <<task, i, clock, sinceResp, posts, polls, sleeps, submitId,
                   firstTerm, hist, failure>>

Next ==
    \/ SubmitTransportError
    \/ SubmitInvalid
    \/ Submit
    \/ Sleep
    \/ PollTransportError
    \/ PollInvalid
    \/ Poll
    \/ Finish

Spec == Init /\ [][Next]_vars

\* the interpreter keeps running the call until it returns or raises
FairSpec == Spec /\ WF_vars(Next)

TypeOK ==
    /\ pc \in {"start", "loop", "poll", "returned", "raised"}
    /\ i \in 0..MaxAttempts
    /\ polls \in 0..MaxAttempts
    /\ task.status \in Statuses \cup {""}

\* ------------------------------------------------------------ properties
Done == pc \in {"returned", "raised"}

\* the call went through the checks after the loop: no remote call failed
Completed == Done /\ failure.kind = "none"

HasOutputKey(t) == t.output.t = "dict" /\ "output" \in DOMAIN t.output.d

\* C1: whatever statuses the remote service reports, the call ends, and it
\* issues at most 360 status-fetch calls.
C1_TerminatesWithin360Polls == <>Done /\ [](polls <= 360)

\* C1 witness: a call that ended after 360 polls none of which was terminal
C1_Witness == Done /\ polls = 360 /\ firstTerm = -1

\* C2: once a response carries a terminal status there is no further
\* status-fetch and no further sleep: the number of polls is the index of the
\* first terminal response (0 for the submission response).
C2_NoPollAfterTerminal ==
    firstTerm # -1 =>
        /\ polls = firstTerm
        /\ sleeps = firstTerm
        /\ pc # "poll"
        /\ Terminal(task.status)

\* C2 witness: the second poll was the first terminal response and the call ended
C2_Witness == Done /\ firstTerm = 2 /\ polls = 2 /\ sleeps = 2

\* C3: every status-fetch call is preceded by exactly one sleep of 5 since the
\* previous remote response; with k polls the sleep adds up to 5 * k, at most
\* 1800.
C3_OneSleepBeforeEachPoll ==
    /\ clock = 5 * sleeps
    /\ clock <= 1800
    /\ pc = "poll" => sinceResp = [sleeps |-> 1, slept |-> 5] /\ sleeps = polls + 1
    /\ pc # "poll" => sleeps = polls /\ clock = 5 * polls
    /\ pc = "loop" => sinceResp = [sleeps |-> 0, slept |-> 0]

\* C3 witness: the 360th status-fetch is about to be issued, 1800 after the start
C3_Witness == pc = "poll" /\ polls = 359 /\ clock = 1800

\* C4: a last task with STATUS_SUCCESSFUL and an output holding the key
\* "output" makes the call return output["output"] unchanged; the polls
\* PENDING, PENDING, STATUS_SUCCESSFUL with {"output": {"answer": "42"}}
\* return {"answer": "42"} after exactly 3 polls.
C4_ReturnsOutputValue ==
    /\ (Done /\ task.status = STATUS_SUCCESSFUL /\ HasOutputKey(task)) =>
           /\ pc = "returned"
           /\ err = NoError
           /\ result = task.output.d["output"]
    /\ (Done /\ hist = <<"PENDING", "PENDING", STATUS_SUCCESSFUL>>
             /\ task.output = DictOf([output |-> [answer |-> "42"]])) =>
           /\ pc = "returned"
           /\ result = [answer |-> "42"]
           /\ polls = 3

\* C4 witness: the scenario of the claim
C4_Witness ==
    /\ pc = "returned"
    /\ hist = <<"PENDING", "PENDING", STATUS_SUCCESSFUL>>
    /\ task.output = DictOf([output |-> [answer |-> "42"]])
    /\ result = [answer |-> "42"]
    /\ polls = 3

\* C5: a last status STATUS_FAILED ends the call with TaskFailed and no value,
\* whatever the output is (an "output" key, or no output at all); a failure on
\* the second poll stops the loop at 2 polls.
C5_FailedRaisesTaskFailed ==
    (Done /\ task.status = STATUS_FAILED) =>
        /\ pc = "raised"
        /\ err = "Nextcloud TaskProcessing Task failed"
        /\ result = NoValue
        /\ polls = firstTerm
        /\ Len(hist) = 2 => polls = 2

\* C5 witness: STATUS_FAILED on the second poll, with no output
C5_Witness ==
    /\ pc = "raised"
    /\ task.status = STATUS_FAILED
    /\ task.output = None
    /\ hist = <<"PENDING", STATUS_FAILED>>
    /\ polls = 2

\* C6: when no response carries a terminal status the loop runs 360 times and
\* the call fails with the error an explicit STATUS_FAILED gives.
C6_CapExhaustedRaisesTaskFailed ==
    (Completed /\ firstTerm = -1) =>
        /\ i = 360
        /\ polls = 360
        /\ pc = "raised"
        /\ err = TaskFailed
        /\ result = NoValue

\* C6 witness: the submission and the last poll report STATUS_SUCCEEDED_TYPO
C6_Witness ==
    /\ Completed
    /\ firstTerm = -1
    /\ task.status = "STATUS_SUCCEEDED_TYPO"
    /\ i = 360
    /\ err = TaskFailed

\* C7: a last status STATUS_SUCCESSFUL with an output that is missing or lacks
\* the key "output" ends the call with MalformedOutput and no value.
C7_MissingOutputRaises ==
    (Done /\ task.status = STATUS_SUCCESSFUL /\ ~ HasOutputKey(task)) =>
        /\ pc = "raised"
        /\ err = "\"output\" key not found in Nextcloud TaskProcessing task result"
        /\ result = NoValue

\* C7 witness: STATUS_SUCCESSFUL fetched by a poll, with no output
C7_Witness ==
    /\ pc = "raised"
    /\ task.status = STATUS_SUCCESSFUL
    /\ task.output = None
    /\ polls > 0

\* C8: the first remote call that fails, or whose response does not match the
\* schema, ends the call with an error: no remote call and no sleep follows,
\* and a schema mismatch is reported as MalformedResponse.
C8_FailureAborts ==
    failure.kind # "none" =>
        /\ pc = "raised"
        /\ err # NoError
        /\ result = NoValue
        /\ posts + polls = failure.calls
        /\ sleeps = failure.sleeps
        /\ failure.kind = "schema" =>
               err = "Failed to parse Nextcloud TaskProcessing task result"

\* C8 witness: the response of the second poll does not match the schema
C8_Witness == failure.kind = "schema" /\ polls = 2 /\ pc = "raised"

\* C9: the id held in the task handle, which is the id the next status-fetch
\* is addressed to, is the id the submission response reported.
C9_IdNeverChanges == pc \in {"loop", "poll"} => task.id = submitId

\* C10: the cap never overrides a terminal status that was fetched: the outcome
\* is decided by the last task alone, so STATUS_SUCCESSFUL on the 360th poll
\* with an "output" key is returned.
C10_CapNeverOverridesStatus ==
    Completed =>
        /\ task.status # STATUS_SUCCESSFUL => pc = "raised" /\ err = TaskFailed
        /\ (task.status = STATUS_SUCCESSFUL /\ ~ HasOutputKey(task)) =>
               pc = "raised" /\ err = MalformedOutput
        /\ (task.status = STATUS_SUCCESSFUL /\ HasOutputKey(task)) =>
               pc = "returned" /\ result = task.output.d["output"]

\* C10 witness: the first terminal status is STATUS_SUCCESSFUL on the 360th poll
C10_Witness ==
    /\ pc = "returned"
    /\ i = 360
    /\ firstTerm = 360
    /\ result = [answer |-> "7"]

====
